---- MODULE Spec2Model ----
(***************************************************************************)
(* A model of i18n/xliff_to_json.py: extraction of trans-unit nodes        *)
(* (_parse_trans_unit), validation and ibid-deduplication (_process_file), *)
(* definition-order sorting (sort_units) and the pipeline of main.         *)
(*                                                                         *)
(* Encoding of Python values.  A text (unicode string) is a sequence of    *)
(* one-character strings.  A dictionary is a function whose domain is the  *)
(* set of its keys (dictionary keys and attribute names are TLA+ strings). *)
(* An error message or location is a sequence of fragments: the literal    *)
(* pieces of the message as whole strings, the interpolated texts          *)
(* character by character.                                                 *)
(***************************************************************************)
EXTENDS Integers, Sequences, FiniteSets, TLC

VARIABLES
    file,          \* the input .xlf file: what minidom.parse(args.xlf) meets
    templates,     \* the template corpus handed to sort_units
    pc,            \* position of main / of the function under check
    i,             \* index of the trans-unit the loop of _process_file is at
    results,       \* _process_file: results
    names,         \* _process_file: names (the meaning registry)
    returned,      \* _process_file has returned its list
    units,         \* main: units (the list sort_units receives)
    sorted_units,  \* main: sorted_units
    sorted_ok,     \* sort_units has returned its list
    exc,           \* the exception that ended the run, if any
    write_calls,   \* the lists write_files was called with, in order
    write_done,    \* write_files has returned
    xlf_exists,    \* the input .xlf file is still on disk
    trans_unit,    \* _parse_trans_unit: its argument
    unit           \* _parse_trans_unit: what it returned or raised

vars == <<file, templates, pc, i, results, names, returned, units,
          sorted_units, sorted_ok, exc, write_calls, write_done, xlf_exists,
          trans_unit, unit>>

(***************************************************************************)
(* Python values                                                           *)
(***************************************************************************)

\* Python's None: no text is equal to it.
None == <<"None">>

\* The empty dictionary {}.
EmptyDict == [k \in {} |-> <<>>]

\* d[k] = v
Put(d, k, v) == [x \in (DOMAIN d) \cup {k} |-> IF x = k THEN v ELSE d[x]]

\* Python truthiness of a text-or-None value: None and '' are false.
Truthy(v) == v # None /\ v # <<>>

NoException == [type |-> "none", location |-> <<>>, msg |-> <<>>]

InputError(location, msg) ==
    [type |-> "InputError", location |-> location, msg |-> msg]

\* An exception of another class (IOError, AttributeError, ...).
OtherError(type) == [type |-> type, location |-> <<>>, msg |-> <<>>]

RECURSIVE Concat(_)
Concat(texts) ==
    IF texts = <<>> THEN <<>> ELSE Head(texts) \o Concat(Tail(texts))

\* unicode.lower(), on the letters the model's texts are written with.
LowerChar(c) ==
    CASE c = "I" -> "i"
      [] c = "B" -> "b"
      [] c = "D" -> "d"
      [] OTHER -> c

Lower(text) == [k \in DOMAIN text |-> LowerChar(text[k])]

(***************************************************************************)
(* _parse_trans_unit                                                       *)
(*                                                                         *)
(* A trans-unit node is [id, source, target, note]: the id attribute (''   *)
(* when absent, as getAttribute gives) and what getElementsByTagName       *)
(* returns for each tag.  A source or target element is the sequence of    *)
(* its child nodes; a note is [from, childNodes].  A child node is         *)
(* [nodeType, data]: a text or comment node with its data, or an element   *)
(* node, whose data field holds its serialised form (an element node has   *)
(* no data attribute in minidom).                                          *)
(***************************************************************************)

\* Node.toxml() of a child node: a text node's data with & and < escaped,
\* a comment in its delimiters, an element as it is written.
EscapeChar(c) ==
    CASE c = "&" -> <<"&", "a", "m", "p", ";">>
      [] c = "<" -> <<"&", "l", "t", ";">>
      [] OTHER -> <<c>>

toxml(child) ==
    CASE child.nodeType = "text" ->
            Concat([k \in DOMAIN child.data |-> EscapeChar(child.data[k])])
      [] child.nodeType = "comment" ->
            <<"<", "!", "-", "-">> \o child.data \o <<"-", "-", ">">>
      [] OTHER -> child.data

\* get_value(tag_name): [raised, exc, value]
get_value(node, tag_name) ==
    LET elts == node[tag_name] IN
    IF elts = <<>>
    THEN [raised |-> FALSE, exc |-> NoException, value |-> None]
    ELSE IF Len(elts) = 1
    THEN [raised |-> FALSE, exc |-> NoException,
          value |-> Concat([k \in DOMAIN elts[1] |-> toxml(elts[1][k])])]
    ELSE [raised |-> TRUE,
          exc |-> InputError(<<>>, <<"Unable to extract ", tag_name>>),
          value |-> None]

\* The loop over the notes: result[from_value] = note.childNodes[0].data
RECURSIVE parse_notes(_, _, _)
parse_notes(notes, key, result) ==
    IF notes = <<>>
    THEN [raised |-> FALSE, exc |-> NoException, result |-> result]
    ELSE LET note == Head(notes)
             from_value == note.from
         IN  IF from_value # "" /\ Len(note.childNodes) = 1
             THEN IF note.childNodes[1].nodeType = "element"
                  THEN [raised |-> TRUE, exc |-> OtherError("AttributeError"),
                        result |-> result]
                  ELSE parse_notes(Tail(notes), key,
                           Put(result, from_value, note.childNodes[1].data))
             ELSE [raised |-> TRUE,
                   exc |-> InputError(key, <<"Unable to extract ", from_value>>),
                   result |-> result]

\* _parse_trans_unit(trans_unit): [raised, exc, result]
parse_trans_unit(node) ==
    LET key == node.id IN
    IF key = <<>>
    THEN [raised |-> TRUE,
          exc |-> InputError(<<>>, <<"id attribute not found">>),
          result |-> EmptyDict]
    ELSE
    LET r1 == Put(EmptyDict, "key", key)
        src == get_value(node, "source")
        tgt == get_value(node, "target")
    IN  IF src.raised
        THEN [raised |-> TRUE, exc |-> InputError(key, src.exc.msg),
              result |-> r1]
        ELSE IF tgt.raised
        THEN [raised |-> TRUE, exc |-> InputError(key, tgt.exc.msg),
              result |-> r1]
        ELSE parse_notes(node.note, key,
                 Put(Put(r1, "source", src.value), "target", tgt.value))

(***************************************************************************)
(* _process_file: the checks of one loop iteration                         *)
(***************************************************************************)

\* args.xlf, as a fragment of error locations
filename == <<"messages.xlf">>

ibid == <<"i", "b", "i", "d">>

\* x in names (a Python list)
InList(x, list) == \E k \in DOMAIN list : list[k] = x

\* The keys of lines 122-125, in the order the loop tries them, that the
\* unit lacks: not key in unit or not unit[key].
lacks(u, key) == key \notin DOMAIN u \/ ~Truthy(u[key])

required_keys == <<"description", "meaning", "source">>

\* Faulty variant: the loop of line 122 without 'source'.
missing_not_source(u) ==
    IF lacks(u, "description") THEN "description"
    ELSE IF lacks(u, "meaning") THEN "meaning"
    ELSE ""

\* The first required key the unit lacks, "" when it has them all.
missing_field(u) ==
    IF lacks(u, required_keys[1]) THEN required_keys[1]
    ELSE IF lacks(u, required_keys[2]) THEN required_keys[2]
    ELSE IF lacks(u, required_keys[3]) THEN required_keys[3]
    ELSE ""

\* Faulty variant: the comparison of line 126 without .lower().
is_ibid_case_sensitive(u) == u["description"] = ibid

\* unit['description'].lower() == 'ibid'

is_ibid(u) == Lower(u["description"]) = ibid

Raise(e, names_, results_) ==
    [raised |-> TRUE, exc |-> e, names |-> names_, results |-> results_]

Continue(names_, results_) ==
    [raised |-> FALSE, exc |-> NoException, names |-> names_,
     results |-> results_]

first_definition_msg(u) ==
    <<"First encountered definition of: ">> \o u["meaning"]
    \o <<" has definition: ">> \o u["description"]
    \o <<".  This error can occur if the definition was not",
         " provided on the first appearance of the message",
         " or if the source (English-language) messages differ.">>

\* Faulty variant: an 'ibid' is dropped whether or not its meaning is known.
ibid_branch_silent(u, names_, results_) == Continue(names_, results_)

\* Lines 126-141: the unit's description is 'ibid'.

ibid_branch(u, names_, results_) ==
    IF ~InList(u["meaning"], names_)
    THEN Raise(InputError(filename, first_definition_msg(u)), names_, results_)
    ELSE Continue(names_, results_)

\* Faulty variant: lines 146-147 without the check of lines 143-145.
definition_branch_unchecked(u, names_, results_) ==
    Continue(Append(names_, u["meaning"]), Append(results_, u))

\* Faulty variant: insert(0, ...) where lines 146-147 append.
definition_branch_prepending(u, names_, results_) ==
    IF InList(u["meaning"], names_)
    THEN Raise(InputError(filename,
                          <<"Second definition of: ">> \o u["meaning"]),
               names_, results_)
    ELSE Continue(<<u["meaning"]>> \o names_, <<u>> \o results_)

\* Lines 142-147: the unit defines its meaning.
definition_branch(u, names_, results_) ==
    IF InList(u["meaning"], names_)
    THEN Raise(InputError(filename,
                          <<"Second definition of: ">> \o u["meaning"]),
               names_, results_)
    ELSE Continue(Append(names_, u["meaning"]), Append(results_, u))

\* Lines 122-147 for one parsed unit.
check_unit(u, names_, results_) ==
    LET key == missing_field(u) IN
    IF key # ""
    THEN Raise(InputError(filename \o <<":">> \o u["key"],
                          <<key, " not found">>),
               names_, results_)
    ELSE IF is_ibid(u)
    THEN ibid_branch(u, names_, results_)
    ELSE definition_branch(u, names_, results_)

\* Lines 121-147: one iteration of the loop over the trans-unit nodes.
process_trans_unit(node, names_, results_) ==
    LET parsed == parse_trans_unit(node) IN
    IF parsed.raised
    THEN Raise(parsed.exc, names_, results_)
    ELSE check_unit(parsed.result, names_, results_)

(***************************************************************************)
(* sort_units                                                              *)
(*                                                                         *)
(* The pattern of key_function is built as a text, by str.format, and then *)
(* read as a regular expression.  The texts of the model are written with  *)
(* letters, the dot, the quote, the equals sign, braces and white space,   *)
(* so the expressions met are sequences of atoms (a literal character, the *)
(* class \s, the dot), each possibly starred.                              *)
(***************************************************************************)

MEANING == <<"m", "e", "a", "n", "i", "n", "g">>

\* '\\smeaning\\s*=\\s*"{0}"\\s'.format(unit['meaning'])
pattern_text(meaning) ==
    <<"\\", "s">> \o MEANING \o <<"\\", "s", "*", "=", "\\", "s", "*", "\"">>
    \o meaning \o <<"\"", "\\", "s">>

\* re.compile, on the expressions above: [atom, c, star]
RECURSIVE re_compile(_)
re_compile(text) ==
    IF text = <<>> THEN <<>>
    ELSE LET esc == text[1] = "\\" /\ Len(text) >= 2
             n == IF esc THEN 2 ELSE 1
             atom == IF esc /\ text[2] = "s" THEN "space"
                     ELSE IF ~esc /\ text[1] = "." THEN "any"
                     ELSE "literal"
             c == IF esc THEN text[2] ELSE text[1]
             star == Len(text) > n /\ text[n + 1] = "*"
             rest == SubSeq(text, n + (IF star THEN 2 ELSE 1), Len(text))
         IN  <<[atom |-> atom, c |-> c, star |-> star]>> \o re_compile(rest)

\* The white space \s matches (no re.UNICODE flag).
IsSpace(c) == c \in {" ", "\t", "\n", "\r", "\f"}

atom_matches(a, c) ==
    CASE a.atom = "space" -> IsSpace(c)
      [] a.atom = "any" -> c # "\n"
      [] OTHER -> c = a.c

\* The compiled pattern p matches a prefix of the text from position k on.
RECURSIVE re_match(_, _, _)
re_match(p, text, k) ==
    IF p = <<>> THEN TRUE
    ELSE IF Head(p).star
    THEN \/ re_match(Tail(p), text, k)
         \/ /\ k <= Len(text)
            /\ atom_matches(Head(p), text[k])
            /\ re_match(p, text, k + 1)
    ELSE /\ k <= Len(text)
         /\ atom_matches(Head(p), text[k])
         /\ re_match(Tail(p), text, k + 1)

\* re.search(pattern, text): match.start() of the leftmost match, -1 for
\* no match (None).
re_search(p, text) ==
    LET starts == {k \in 1..(Len(text) + 1) : re_match(p, text, k)} IN
    IF starts = {} THEN -1
    ELSE (CHOOSE k \in starts : \A j \in starts : k <= j) - 1

\* key_function(unit): [raised, exc, key]
key_function(u, corpus) ==
    LET start == re_search(re_compile(pattern_text(u["meaning"])), corpus) IN
    IF start >= 0
    THEN [raised |-> FALSE, exc |-> NoException, key |-> start]
    ELSE [raised |-> TRUE,
          exc |-> InputError(<<"args.templates">>,
                     <<"msg definition for meaning not found: ">>
                     \o u["meaning"]),
          key |-> -1]

\* sorted(list, key): the stable ascending order of the decorated list.
\* insert puts an item behind every item whose key is not greater.
RECURSIVE insert(_, _)
insert(item, list) ==
    IF list = <<>> THEN <<item>>
    ELSE IF item.key < Head(list).key THEN <<item>> \o list
    ELSE <<Head(list)>> \o insert(item, Tail(list))

RECURSIVE sorted(_)
sorted(decorated) ==
    IF decorated = <<>> THEN <<>>
    ELSE insert(decorated[Len(decorated)],
                sorted(SubSeq(decorated, 1, Len(decorated) - 1)))

\* sort_units(units, templates): [raised, exc, value]
sort_units(list, corpus) ==
    LET keys == [k \in DOMAIN list |-> key_function(list[k], corpus)]
        bad == {k \in DOMAIN list : keys[k].raised}
    IN  IF bad # {}
        THEN [raised |-> TRUE,
              exc |-> keys[CHOOSE k \in bad : \A j \in bad : k <= j].exc,
              value |-> <<>>]
        ELSE LET decorated == [k \in DOMAIN list |->
                                  [key |-> keys[k].key, item |-> list[k]]]
                 ordered == sorted(decorated)
             IN  [raised |-> FALSE, exc |-> NoException,
                  value |-> [k \in DOMAIN ordered |-> ordered[k].item]]

(***************************************************************************)
(* main: the order of its steps.  An exception raised in a step is caught  *)
(* nowhere in main, so the run ends there.                                 *)
(***************************************************************************)

\* Faulty variant: the input file is removed right after it was processed.
next_stage_removing_first(stage) ==
    CASE stage = "process" -> "remove"
      [] stage = "remove" -> "templates"
      [] stage = "templates" -> "sort"
      [] stage = "sort" -> "write"
      [] OTHER -> "done"

\* Lines 214-229: the step main takes after a step that returned.
next_stage(stage) ==
    CASE stage = "process" -> "templates"
      [] stage = "templates" -> "sort"
      [] stage = "sort" -> "write"
      [] stage = "write" -> "remove"
      [] OTHER -> "done"

(***************************************************************************)
(* Inputs                                                                  *)
(***************************************************************************)

MaxUnits == 3       \* trans-unit nodes of a document
MaxSortUnits == 2   \* units of a list given to sort_units alone
MaxDecls == 2       \* declarations of a corpus given to sort_units alone
MaxNotes == 2       \* note elements of a node given to _parse_trans_unit alone

Seqs(S, n) == UNION {[1..k -> S] : k \in 0..n}

text(t) == [nodeType |-> "text", data |-> t]

note(from, t) == [from |-> from, childNodes |-> <<text(t)>>]

\* A well-formed node: one id, at most one source, a description and a
\* meaning note where given (None: no such note).
UnitNode(id, has_source, description, meaning) ==
    [id |-> id,
     source |-> IF has_source THEN << <<text(<<"H", "i">>)>> >> ELSE <<>>,
     target |-> <<>>,
     note |-> (IF description = None THEN <<>>
               ELSE <<note("description", description)>>)
              \o (IF meaning = None THEN <<>>
                  ELSE <<note("meaning", meaning)>>)]

\* The nodes the documents given to main are made of.
DocNodes ==
    { UnitNode(<<"1">>, TRUE, <<"d">>, <<"a">>),
      UnitNode(<<"2">>, TRUE, ibid, <<"a">>),
      UnitNode(<<"3">>, TRUE, <<"I", "B", "i", "d">>, <<"a">>),
      UnitNode(<<"4">>, FALSE, <<"d">>, <<"a">>),
      UnitNode(<<"5">>, FALSE, ibid, <<"a">>),
      UnitNode(<<"6">>, TRUE, None, <<"a">>),
      UnitNode(<<"7">>, TRUE, <<"d">>, <<"b">>),
      UnitNode(<<"8">>, TRUE, ibid, <<"b">>),
      UnitNode(<<"9">>, TRUE, <<"d">>, None),
      UnitNode(<<>>, TRUE, <<"d">>, <<"b">>),
      [id |-> <<"0">>, source |-> <<>>, target |-> <<>>,
       note |-> <<note("description", <<"d">>), note("meaning", <<"b">>),
                  note("key", <<"K">>)>>] }

Files ==
    { [kind |-> "unreadable", trans_units |-> <<>>],
      [kind |-> "malformed", trans_units |-> <<>>] }
    \cup { [kind |-> "xml", trans_units |-> d] : d \in Seqs(DocNodes, MaxUnits) }

\* One declaration of a meaning in a template, with what surrounds it.
Decl(form, value) ==
    CASE form = "tight" ->
            <<" ">> \o MEANING \o <<"=", "\"">> \o value \o <<"\"", " ">>
      [] form = "spaced" ->
            <<" ">> \o MEANING \o <<" ", "=", " ", "\"">> \o value
            \o <<"\"", " ">>
      [] form = "glued" ->
            <<"x">> \o MEANING \o <<"=", "\"">> \o value \o <<"\"", " ">>
      [] OTHER ->
            <<" ">> \o MEANING \o <<"=", "\"">> \o value \o <<"\"", "}">>

\* The corpora given to main: b declared before a, and a alone.
MainCorpora ==
    { Decl("tight", <<"b">>) \o Decl("spaced", <<"a">>),
      Decl("tight", <<"a">>) }

SortMeanings == { <<"a">>, <<"b">>, <<"a", "b">>, <<"a", ".">> }

SortUnitSet ==
    { [key |-> <<"1">>, meaning |-> m] : m \in SortMeanings }
    \cup { [key |-> <<"2">>, meaning |-> <<"a">>] }

DeclSet ==
    { Decl(form, value) :
        form \in {"tight", "spaced", "glued", "closed"},
        value \in SortMeanings }

SortCorpora == { Concat(ds) : ds \in Seqs(DeclSet, MaxDecls) }

element(t) == [nodeType |-> "element", data |-> t]

comment(t) == [nodeType |-> "comment", data |-> t]

NoteSet ==
    { note("description", <<"d">>), note("key", <<"K">>),
      note("source", <<"S">>), note("target", <<"T">>), note("", <<"d">>),
      [from |-> "meaning", childNodes |-> <<>>],
      [from |-> "meaning", childNodes |-> <<comment(<<>>)>>],
      [from |-> "meaning",
       childNodes |-> <<element(<<"<", "b", "/", ">">>)>>] }

ElementSet ==
    { <<>>,
      <<text(<<"a", "&", "b">>), element(<<"<", "b", "/", ">">>)>> }

ParseNodes ==
    { [id |-> id, source |-> src, target |-> tgt, note |-> notes] :
        id \in {<<>>, <<"7">>},
        src \in Seqs(ElementSet, 2),
        tgt \in {<<>>, << <<text(<<"t">>)>> >>,
                 << <<text(<<"t">>)>>, <<text(<<"t">>)>> >>},
        notes \in Seqs(NoteSet, MaxNotes) }

NoNode == [id |-> <<>>, source |-> <<>>, target |-> <<>>, note |-> <<>>]

NotParsed == [raised |-> FALSE, exc |-> NoException, result |-> EmptyDict]

(***************************************************************************)
(* main over one input file                                                *)
(***************************************************************************)

Init ==
    /\ file \in Files
    /\ templates \in MainCorpora
    /\ pc = "parse"
    /\ i = 1
    /\ results = <<>>
    /\ names = <<>>
    /\ returned = FALSE
    /\ units = <<>>
    /\ sorted_units = <<>>
    /\ sorted_ok = FALSE
    /\ exc = NoException
    /\ write_calls = <<>>
    /\ write_done = FALSE
    /\ xlf_exists = TRUE
    /\ trans_unit = NoNode
    /\ unit = NotParsed

\* Lines 110-117 and 150-152: minidom.parse(filename).  An IOError ends the
\* process by sys.exit(1); any other exception becomes an InputError.
ParseXml ==
    /\ pc = "parse"
    /\ IF file.kind = "unreadable"
       THEN pc' = "exited" /\ exc' = OtherError("SystemExit")
       ELSE IF file.kind = "malformed"
       THEN pc' = "raised" /\ exc' = InputError(filename, <<"str(e)">>)
       ELSE pc' = "loop" /\ exc' = exc
    /\ UNCHANGED <<file, templates, i, results, names, returned, units,
                   sorted_units, sorted_ok, write_calls, write_done,
                   xlf_exists, trans_unit, unit>>

\* Lines 120-147: one iteration of the loop.
ProcessTransUnit ==
    /\ pc = "loop"
    /\ i <= Len(file.trans_units)
    /\ LET r == process_trans_unit(file.trans_units[i], names, results) IN
       /\ names' = r.names
       /\ results' = r.results
       /\ exc' = r.exc
       /\ pc' = IF r.raised THEN "raised" ELSE "loop"
       /\ i' = IF r.raised THEN i ELSE i + 1
    /\ UNCHANGED <<file, templates, returned, units, sorted_units, sorted_ok,
                   write_calls, write_done, xlf_exists, trans_unit, unit>>

\* Lines 149 and 214: return results; units = _process_file(args.xlf)
ReturnResults ==
    /\ pc = "loop"
    /\ i > Len(file.trans_units)
    /\ returned' = TRUE
    /\ units' = results
    /\ pc' = next_stage("process")
    /\ UNCHANGED <<file, templates, i, results, names, sorted_units,
                   sorted_ok, exc, write_calls, write_done, xlf_exists,
                   trans_unit, unit>>

\* Lines 215-221: the template files are read (open may raise IOError).
ReadTemplates ==
    /\ pc = "templates"
    /\ \E readable \in BOOLEAN :
          IF readable
          THEN pc' = next_stage("templates") /\ exc' = exc
          ELSE pc' = "raised" /\ exc' = OtherError("IOError")
    /\ UNCHANGED <<file, templates, i, results, names, returned, units,
                   sorted_units, sorted_ok, write_calls, write_done,
                   xlf_exists, trans_unit, unit>>

\* Line 222: sorted_units = sort_units(units, ' '.join(files))
SortUnits ==
    /\ pc = "sort"
    /\ LET r == sort_units(units, templates) IN
       /\ sorted_units' = r.value
       /\ sorted_ok' = ~r.raised
       /\ exc' = r.exc
       /\ pc' = IF r.raised THEN "raised" ELSE next_stage("sort")
    /\ UNCHANGED <<file, templates, i, results, names, returned, units,
                   write_calls, write_done, xlf_exists, trans_unit, unit>>

\* Line 225: write_files(..., sorted_units, True); it may raise IOError.
WriteFiles ==
    /\ pc = "write"
    /\ write_calls' = Append(write_calls, sorted_units)
    /\ \E written \in BOOLEAN :
          /\ write_done' = written
          /\ IF written
             THEN pc' = next_stage("write") /\ exc' = exc
             ELSE pc' = "raised" /\ exc' = OtherError("IOError")
    /\ UNCHANGED <<file, templates, i, results, names, returned, units,
                   sorted_units, sorted_ok, xlf_exists, trans_unit, unit>>

\* Lines 228-229: os.remove(args.xlf); it may raise OSError.
RemoveXlf ==
    /\ pc = "remove"
    /\ \E removed \in BOOLEAN :
          /\ xlf_exists' = ~removed
          /\ IF removed
             THEN pc' = next_stage("remove") /\ exc' = exc
             ELSE pc' = "raised" /\ exc' = OtherError("OSError")
    /\ UNCHANGED <<file, templates, i, results, names, returned, units,
                   sorted_units, sorted_ok, write_calls, write_done,
                   trans_unit, unit>>

Next ==
    \/ ParseXml
    \/ ProcessTransUnit
    \/ ReturnResults
    \/ ReadTemplates
    \/ SortUnits
    \/ WriteFiles
    \/ RemoveXlf

Spec == Init /\ [][Next]_vars

(***************************************************************************)
(* sort_units alone, on any list of units and any corpus                   *)
(***************************************************************************)

InitSort ==
    /\ file = [kind |-> "xml", trans_units |-> <<>>]
    /\ templates \in SortCorpora
    /\ pc = "sort"
    /\ i = 1
    /\ results = <<>>
    /\ names = <<>>
    /\ returned = TRUE
    /\ units \in Seqs(SortUnitSet, MaxSortUnits)
    /\ sorted_units = <<>>
    /\ sorted_ok = FALSE
    /\ exc = NoException
    /\ write_calls = <<>>
    /\ write_done = FALSE
    /\ xlf_exists = TRUE
    /\ trans_unit = NoNode
    /\ unit = NotParsed

SpecSort == InitSort /\ [][SortUnits]_vars

(***************************************************************************)
(* _parse_trans_unit alone, on any node                                    *)
(***************************************************************************)

InitParse ==
    /\ file = [kind |-> "xml", trans_units |-> <<>>]
    /\ templates = <<>>
    /\ pc = "call"
    /\ i = 1
    /\ results = <<>>
    /\ names = <<>>
    /\ returned = FALSE
    /\ units = <<>>
    /\ sorted_units = <<>>
    /\ sorted_ok = FALSE
    /\ exc = NoException
    /\ write_calls = <<>>
    /\ write_done = FALSE
    /\ xlf_exists = TRUE
    /\ trans_unit \in ParseNodes
    /\ unit = NotParsed

\* Lines 58-80: unit = _parse_trans_unit(trans_unit)
ParseTransUnit ==
    /\ pc = "call"
    /\ unit' = parse_trans_unit(trans_unit)
    /\ pc' = "return"
    /\ UNCHANGED <<file, templates, i, results, names, returned, units,
                   sorted_units, sorted_ok, exc, write_calls, write_done,
                   xlf_exists, trans_unit>>

SpecParse == InitParse /\ [][ParseTransUnit]_vars

(***************************************************************************)
(* The document as _process_file sees it                                   *)
(***************************************************************************)

Doc == file.trans_units

\* Node k yields a unit (its extraction raises nothing); U(k) is the unit.
HasUnit(k) == ~parse_trans_unit(Doc[k]).raised

U(k) == parse_trans_unit(Doc[k]).result

\* The description is 'ibid', in any letter case.
DescriptionIsIbid(u) == Lower(u["description"]) = ibid

IbidUnit(k) ==
    HasUnit(k) /\ ~lacks(U(k), "description") /\ DescriptionIsIbid(U(k))

NonIbidUnit(k) ==
    HasUnit(k) /\ ~lacks(U(k), "description") /\ ~DescriptionIsIbid(U(k))

MeaningAt(k) ==
    IF HasUnit(k) /\ "meaning" \in DOMAIN U(k) THEN U(k)["meaning"] ELSE None

\* The loop is about to process node k.
Reaches(k) == pc = "loop" /\ i = k /\ k <= Len(Doc)

\* The step that processed a unit raised: the run ended, no list returned.
RaisedAtUnit == pc = "raised" /\ ~returned /\ file.kind = "xml"

(***************************************************************************)
(* C1.  Whenever _process_file returns a list, no two units of the list    *)
(* have the same meaning, and every meaning carried by a non-ibid unit of  *)
(* the document is the meaning of exactly one unit of the list.            *)
(***************************************************************************)
C1_MeaningsOnce ==
    returned =>
        /\ \A a, b \in DOMAIN units :
              a # b => units[a]["meaning"] # units[b]["meaning"]
        /\ \A k \in DOMAIN Doc :
              NonIbidUnit(k) =>
                 Cardinality({j \in DOMAIN units :
                                 units[j]["meaning"] = MeaningAt(k)}) = 1

\* A list of two meanings returned for a document that repeats one of them
\* under 'ibid'.
C1_Witness ==
    /\ returned
    /\ Len(units) = 2
    /\ \E k \in DOMAIN Doc : IbidUnit(k)

(***************************************************************************)
(* C2.  A unit whose description is 'ibid' in any letter case and whose    *)
(* meaning is already in names is dropped: results and names are left as   *)
(* they are, no error is raised and the loop goes on to the next unit.     *)
(***************************************************************************)
Dropped ==
    /\ results' = results
    /\ names' = names
    /\ exc' = NoException
    /\ pc' = "loop"
    /\ i' = i + 1

\* As stated: for every such unit.
C2_IbidDropped_AsStated ==
    [][ (Reaches(i) /\ IbidUnit(i) /\ InList(MeaningAt(i), names)) => Dropped ]_vars

\* Amended: for every such unit that has a non-empty source.
C2_IbidDropped ==
    [][ (Reaches(i) /\ IbidUnit(i) /\ InList(MeaningAt(i), names)
         /\ ~lacks(U(i), "source")) => Dropped ]_vars

\* The loop has just dropped a unit whose description is 'ibid' in mixed
\* case, and stands behind it with the one unit collected before.
C2_Witness ==
    /\ pc = "loop"
    /\ i >= 2
    /\ IbidUnit(i - 1)
    /\ U(i - 1)["description"] # ibid
    /\ Len(results) = 1
    /\ names = <<MeaningAt(i - 1)>>

(***************************************************************************)
(* C3.  When _process_file reaches an 'ibid' unit and no earlier non-ibid  *)
(* unit of the document has its meaning, it raises an error and returns no *)
(* list, also when a unit defining the meaning comes later.                *)
(***************************************************************************)
Dangling(k) ==
    /\ IbidUnit(k)
    /\ \A j \in 1..(k - 1) :
          ~(NonIbidUnit(j) /\ MeaningAt(j) = MeaningAt(k))

C3_DanglingIbidFails ==
    /\ [](\A k \in DOMAIN Doc : Dangling(k) => ~returned)
    /\ [][ (Reaches(i) /\ Dangling(i)) =>
              (pc' = "raised" /\ exc'.type = "InputError" /\ ~returned') ]_vars

\* The run ended at a dangling 'ibid' whose meaning a later unit defines.
C3_Witness ==
    /\ RaisedAtUnit
    /\ Dangling(i)
    /\ exc.msg[1] = "First encountered definition of: "
    /\ \E j \in (i + 1)..Len(Doc) :
          NonIbidUnit(j) /\ MeaningAt(j) = MeaningAt(i)

(***************************************************************************)
(* C4.  When the document holds two non-ibid units with the same meaning,  *)
(* _process_file raises 'Second definition of' when it reaches the second  *)
(* and returns no list, whatever lies between or after them.               *)
(***************************************************************************)
SecondDefinition(k) ==
    /\ NonIbidUnit(k)
    /\ ~lacks(U(k), "meaning")
    /\ \E j \in 1..(k - 1) : NonIbidUnit(j) /\ MeaningAt(j) = MeaningAt(k)

SecondDefinitionError(k) ==
    InputError(filename, <<"Second definition of: ">> \o MeaningAt(k))

SourceNotFound(k) ==
    InputError(filename \o <<":">> \o U(k)["key"], <<"source", " not found">>)

\* As stated: the error is 'Second definition of'.
C4_SecondDefinitionFails_AsStated ==
    /\ [](\A k \in DOMAIN Doc : SecondDefinition(k) => ~returned)
    /\ [][ (Reaches(i) /\ SecondDefinition(i)) =>
              (pc' = "raised" /\ ~returned'
               /\ exc' = SecondDefinitionError(i)) ]_vars

\* Amended: the error is 'Second definition of' when the second unit has a
\* non-empty source, and 'source not found' when it has none.
C4_SecondDefinitionFails ==
    /\ [](\A k \in DOMAIN Doc : SecondDefinition(k) => ~returned)
    /\ [][ (Reaches(i) /\ SecondDefinition(i)) =>
              (pc' = "raised" /\ ~returned'
               /\ exc' = IF lacks(U(i), "source") THEN SourceNotFound(i)
                         ELSE SecondDefinitionError(i)) ]_vars

\* The run ended with 'Second definition of' at a second definition that
\* has another unit between it and the first.
C4_Witness ==
    /\ RaisedAtUnit
    /\ SecondDefinition(i)
    /\ exc = SecondDefinitionError(i)
    /\ \E j \in 1..(i - 2) : NonIbidUnit(j) /\ MeaningAt(j) = MeaningAt(i)

(***************************************************************************)
(* C5.  Every unit must have non-empty description, meaning and source,    *)
(* 'ibid' units that would be dropped included: for a unit that lacks one, *)
(* _process_file raises an error that names the file and the unit's key,   *)
(* before the ibid and duplicate checks; so every unit of a returned list  *)
(* has a key and non-empty description, meaning and source.                *)
(***************************************************************************)
Lacked(k) == {key \in {"description", "meaning", "source"} : lacks(U(k), key)}

C5_RequiredFields ==
    /\ [](returned =>
            \A k \in DOMAIN units :
               /\ "key" \in DOMAIN units[k]
               /\ \A key \in {"description", "meaning", "source"} :
                     ~lacks(units[k], key))
    /\ [][ (Reaches(i) /\ HasUnit(i) /\ Lacked(i) # {}) =>
              /\ pc' = "raised"
              /\ ~returned'
              /\ exc'.type = "InputError"
              /\ exc'.location = filename \o <<":">> \o U(i)["key"]
              /\ exc'.msg[1] \in Lacked(i)
              /\ exc'.msg[2] = " not found"
              /\ names' = names
              /\ results' = results ]_vars

\* The run ended with 'source not found' at an 'ibid' unit whose meaning
\* is in names: without the check it would have been dropped.
C5_Witness ==
    /\ RaisedAtUnit
    /\ IbidUnit(i)
    /\ InList(MeaningAt(i), names)
    /\ exc = SourceNotFound(i)

(***************************************************************************)
(* C9.  A returned list is exactly the subsequence of the document's       *)
(* non-ibid units, in document order; and at every point of the loop names *)
(* is the sequence of the meanings of results.                             *)
(***************************************************************************)
KeepsDescription(u) == ~DescriptionIsIbid(u)

NonIbidUnits == SelectSeq([k \in DOMAIN Doc |-> U(k)], KeepsDescription)

C9_DocumentOrder ==
    /\ names = [k \in DOMAIN results |-> results[k]["meaning"]]
    /\ returned => units = NonIbidUnits

\* A list of two units returned in document order for a document of three
\* whose second unit is an 'ibid'.
C9_Witness ==
    /\ returned
    /\ Len(Doc) = 3
    /\ IbidUnit(2)
    /\ units = <<U(1), U(3)>>
    /\ U(1) # U(3)

(***************************************************************************)
(* C8.  A run of main is all-or-nothing: when extraction, validation or    *)
(* sorting raises, write_files is not called and the input file is not     *)
(* deleted; write_files is called only with the complete sorted list; the  *)
(* input file is deleted only after validation, sorting and writing have   *)
(* all completed.                                                          *)
(***************************************************************************)
C8_AllOrNothing ==
    /\ (pc \in {"raised", "exited"} /\ ~sorted_ok) =>
          (write_calls = <<>> /\ xlf_exists)
    /\ write_calls # <<>> =>
          /\ returned
          /\ sorted_ok
          /\ write_calls = <<sorted_units>>
          /\ Len(sorted_units) = Len(NonIbidUnits)
    /\ ~xlf_exists => (returned /\ sorted_ok /\ write_done)

\* Validation returned two units, then sorting raised: nothing was written
\* and the input file is still there.
C8_Witness ==
    /\ pc = "raised"
    /\ returned
    /\ Len(units) = 2
    /\ ~sorted_ok
    /\ exc.type = "InputError"
    /\ write_calls = <<>>
    /\ xlf_exists

(***************************************************************************)
(* What the specification means by a declaration of a meaning: the text    *)
(* meaning = "<value>", with any white space around the equals sign,       *)
(* bounded by white space, whose value is the meaning character for        *)
(* character.                                                              *)
(***************************************************************************)
Literal(value) ==
    [k \in DOMAIN value |-> [atom |-> "literal", c |-> value[k], star |-> FALSE]]

DeclarationPattern(value) ==
    re_compile(<<"\\", "s">> \o MEANING
               \o <<"\\", "s", "*", "=", "\\", "s", "*", "\"">>)
    \o Literal(value)
    \o re_compile(<<"\"", "\\", "s">>)

\* Offset of the first declaration of the value in the corpus, -1 if none.
DeclarationOffset(value, corpus) == re_search(DeclarationPattern(value), corpus)

Declared(value, corpus) == DeclarationOffset(value, corpus) >= 0

SortReturned == pc # "sort" /\ sorted_ok

SortRaised == pc = "raised" /\ ~sorted_ok /\ exc.type = "InputError"

Reorderings(n) ==
    {f \in [1..n -> 1..n] : \A a, b \in 1..n : a # b => f[a] # f[b]}

(***************************************************************************)
(* C6.  For a list of units whose meanings are all declared in the corpus, *)
(* sort_units returns a permutation of the list in which the offsets of    *)
(* the first declarations of the units' meanings are non-decreasing and    *)
(* units with equal offset keep their input order.                         *)
(***************************************************************************)
C6_SortedByDeclaration ==
    (pc # "sort" /\ \A k \in DOMAIN units : Declared(units[k]["meaning"], templates))
    =>
    /\ SortReturned
    /\ \E f \in Reorderings(Len(units)) :
          /\ sorted_units = [k \in DOMAIN units |-> units[f[k]]]
          /\ \A a, b \in DOMAIN units :
                a < b =>
                   LET oa == DeclarationOffset(units[f[a]]["meaning"], templates)
                       ob == DeclarationOffset(units[f[b]]["meaning"], templates)
                   IN  oa <= ob /\ (oa = ob => f[a] < f[b])

(***************************************************************************)
(* C7.  sort_units raises, and returns no list, exactly when some unit's   *)
(* meaning has no declaration in the corpus whose value equals it; a unit  *)
(* without such a declaration is never placed in the result.               *)
(***************************************************************************)
C7_RaisesIffUndeclared ==
    pc # "sort" =>
       /\ SortRaised <=>
             \E k \in DOMAIN units : ~Declared(units[k]["meaning"], templates)
       /\ SortReturned =>
             \A k \in DOMAIN sorted_units :
                Declared(sorted_units[k]["meaning"], templates)

====
